---- MODULE Spec2Model ----
(***************************************************************************)
(* Software triangle rasterizer (imbuf rasterizer: Rasterizer,             *)
(* Rasterlines, Rasterline, VertexOutInterface), and the device memory     *)
(* methods of OneapiDevice.                                                *)
(*                                                                         *)
(* float values are modelled as exact rationals <<n, d>> with d > 0 in     *)
(* lowest terms; rounding error of IEEE floats is not modelled.            *)
(* All integer values of the model stay far below 2^31, so no int32_t or   *)
(* uint32_t computation of the modelled runs wraps.                        *)
(***************************************************************************)
EXTENDS Integers, Sequences, FiniteSets, TLC

(***************************************************************************)
(* Bounds of the model.                                                    *)
(***************************************************************************)
\* Template parameter RasterlinesSize (default DefaultRasterlinesBufferSize
\* = 4096), scaled down.
RasterlinesSize == 2
\* Longest sequence of public calls (draw_triangle, flush, destructor) made
\* on one rasterizer.
MaxOps == 4

(***************************************************************************)
(* float arithmetic, as exact rationals.                                   *)
(***************************************************************************)
RECURSIVE GCD(_, _)
GCD(a, b) == IF b = 0 THEN a ELSE GCD(b, a % b)

IAbs(i) == IF i < 0 THEN -i ELSE i

Rat(n, d) ==
    LET s == IF d < 0 THEN -1 ELSE 1
        g == GCD(IAbs(n), IAbs(d))
    IN  <<(s * n) \div g, (s * d) \div g>>

FromInt(i) == <<i, 1>>
RZero == <<0, 1>>
RHalf == <<1, 2>>

RAdd(a, b) == Rat(a[1] * b[2] + b[1] * a[2], a[2] * b[2])
RSub(a, b) == Rat(a[1] * b[2] - b[1] * a[2], a[2] * b[2])
RMul(a, b) == Rat(a[1] * b[1], a[2] * b[2])
\* Only used with a non-zero divider (see calc_vertex_output_data and
\* clamped_rasterline).
RDiv(a, b) == Rat(a[1] * b[2], a[2] * b[1])
RLt(a, b) == a[1] * b[2] < b[1] * a[2]
RLe(a, b) == a[1] * b[2] <= b[1] * a[2]
RGe(a, b) == RLe(b, a)
RGt(a, b) == RLt(b, a)
RAbs(a) == <<IAbs(a[1]), a[2]>>
\* floorf / ceilf
RFloor(a) == a[1] \div a[2]
RCeil(a) == -((-a[1]) \div a[2])

(***************************************************************************)
(* CenterPixelClampingMethod: the sampling anchor of row/column i is the   *)
(* pixel centre i + 1/2.                                                   *)
(***************************************************************************)
to_fract(value) == RSub(value, FromInt(RFloor(value)))

round(value) ==
    IF RGt(to_fract(value), RHalf) THEN RCeil(value) ELSE RFloor(value)

distance_to_anchor(value) ==
    LET fract == to_fract(value)
    IN  IF RLe(fract, RHalf) THEN RSub(RHalf, fract)
        ELSE RSub(<<3, 2>>, fract)

scanline_for(y) == round(y)
column_for(x) == round(x)
distance_to_scanline_anchor(y) == distance_to_anchor(y)
distance_to_column_anchor(x) == distance_to_anchor(x)

(***************************************************************************)
(* VertexOutInterface<float>: coord is <<x, y>>, data is the payload.      *)
(***************************************************************************)
VertexOut(x, y, data) == [data |-> data, coord |-> <<x, y>>]

operator_add_assign(self, other) ==
    [data |-> RAdd(self.data, other.data),
     coord |-> <<RAdd(self.coord[1], other.coord[1]),
                 RAdd(self.coord[2], other.coord[2])>>]

operator_sub(self, other) ==
    [data |-> RSub(self.data, other.data),
     coord |-> <<RSub(self.coord[1], other.coord[1]),
                 RSub(self.coord[2], other.coord[2])>>]

operator_div(self, divider) ==
    [data |-> RDiv(self.data, divider),
     coord |-> <<RDiv(self.coord[1], divider), RDiv(self.coord[2], divider)>>]

\* The product is computed into the local `result`, but `*this` is returned.
operator_mul(self, multiplier) ==
    LET result == [data |-> RMul(self.data, multiplier),
                   coord |-> <<RMul(self.coord[1], multiplier),
                               RMul(self.coord[2], multiplier)>>]
    IN  self

(***************************************************************************)
(* Statistics: six counters.                                               *)
(***************************************************************************)
StatsInit ==
    [triangles |-> 0, discarded_triangles |-> 0, rasterlines |-> 0,
     discarded_rasterlines |-> 0, clamped_rasterlines |-> 0, flushes |-> 0]

increase_triangles(s) == [s EXCEPT !.triangles = @ + 1]
increase_discarded_triangles(s) == [s EXCEPT !.discarded_triangles = @ + 1]
increase_rasterlines(s) == [s EXCEPT !.rasterlines = @ + 1]
increase_discarded_rasterlines(s) == [s EXCEPT !.discarded_rasterlines = @ + 1]
increase_clamped_rasterlines(s) == [s EXCEPT !.clamped_rasterlines = @ + 1]
increase_flushes(s) == [s EXCEPT !.flushes = @ + 1]

(***************************************************************************)
(* Rasterline<float>.  `id` is a ghost field: 0 for a buffer element that  *)
(* was never assigned, otherwise the sequence number of the append.        *)
(***************************************************************************)
Rasterline(y, start_x, end_x, start_data, delta_step) ==
    [y |-> y, start_x |-> start_x, end_x |-> end_x,
     start_data |-> start_data, delta_step |-> delta_step, id |-> 0]

\* std::nullopt
NullOpt == [value |-> Rasterline(0, 0, 0, RZero, RZero), has_value |-> FALSE]
Some(line) == [value |-> line, has_value |-> TRUE]

(***************************************************************************)
(* The methods of Rasterizer work on a record R of the mutable state:      *)
(*   x, y          image_buffer_->x, image_buffer_->y                      *)
(*   rect_float    image_buffer_->rect_float, one payload per pixel index  *)
(*   rasterlines_  rasterlines_.buffer                                     *)
(*   stats         the statistics                                          *)
(* and of the ghost state:                                                 *)
(*   render_log    ids of the rasterlines given to render_rasterline       *)
(*   appended      number of append() calls so far                         *)
(*   calls         clamped_rasterline calls of the running draw_triangle   *)
(*   written       pixel indices stored to by the running public call      *)
(*   rows          values of v the scanline loop bodies ran for, in order  *)
(*   edges         sorted_vertices, the edges and increments before the    *)
(*                 first loop (setup), the edges before and the edges and  *)
(*                 increments after the replacement between the loops      *)
(***************************************************************************)

\* The loop body of render_rasterline for columns x .. end_x - 1.  A store
\* to pixel_index >= x * y lands outside rect_float: it is recorded in
\* `written` and leaves the image as it is.
RECURSIVE render_columns(_, _, _, _)
render_columns(R, rasterline, x, data) ==
    IF ~(x < rasterline.end_x) THEN R
    ELSE LET pixel_index == rasterline.y * R.x + x
             R1 == IF pixel_index < R.x * R.y
                   THEN [R EXCEPT !.rect_float[pixel_index] = data,
                                  !.written = @ \cup {pixel_index}]
                   ELSE [R EXCEPT !.written = @ \cup {pixel_index}]
         IN  render_columns(R1, rasterline, x + 1,
                            RAdd(data, rasterline.delta_step))

\* render_rasterline whose loop starts one column late.
render_rasterline_skips_first(R, rasterline) ==
    render_columns([R EXCEPT !.render_log = Append(@, rasterline.id)],
                   rasterline, rasterline.start_x + 1,
                   RAdd(rasterline.start_data, rasterline.delta_step))

render_rasterline(R, rasterline) ==
    render_columns([R EXCEPT !.render_log = Append(@, rasterline.id)],
                   rasterline, rasterline.start_x, rasterline.start_data)

\* The loop of flush stopping one element early.
RECURSIVE render_all_but_last(_, _, _)
render_all_but_last(R, buffer, i) ==
    IF i >= Len(buffer) THEN R
    ELSE render_all_but_last(render_rasterline(R, buffer[i]), buffer, i + 1)

RECURSIVE render_all(_, _, _)
render_all(R, buffer, i) ==
    IF i > Len(buffer) THEN R
    ELSE render_all(render_rasterline(R, buffer[i]), buffer, i + 1)

is_empty(R) == Len(R.rasterlines_) = 0
is_full(R) == Len(R.rasterlines_) = RasterlinesSize

\* flush that does not clear the buffer after rendering.
flush_keeps_buffer(R) ==
    IF is_empty(R) THEN R
    ELSE LET R1 == [R EXCEPT !.stats = increase_flushes(@)]
         IN  render_all(R1, R1.rasterlines_, 1)

\* flush without the early return on an empty buffer.
flush_counts_empty(R) ==
    LET R1 == [R EXCEPT !.stats = increase_flushes(@)]
        R2 == render_all(R1, R1.rasterlines_, 1)
    IN  [R2 EXCEPT !.rasterlines_ = <<>>]

\* flush that starts the statistics of the next batch from zero.
flush_resets_statistics(R) ==
    IF is_empty(R) THEN R
    ELSE LET R1 == [R EXCEPT !.stats = increase_flushes(@)]
             R2 == render_all(R1, R1.rasterlines_, 1)
         IN  [R2 EXCEPT !.rasterlines_ = <<>>,
                        !.stats = [StatsInit EXCEPT !.flushes = R2.stats.flushes]]

flush(R) ==
    IF is_empty(R) THEN R
    ELSE LET R1 == [R EXCEPT !.stats = increase_flushes(@)]
             R2 == render_all(R1, R1.rasterlines_, 1)
         IN  [R2 EXCEPT !.rasterlines_ = <<>>]

append(R, rasterline) ==
    LET R1 == [R EXCEPT !.rasterlines_ =
                            Append(@, [rasterline EXCEPT !.id = R.appended + 1]),
                        !.appended = @ + 1]
    IN  IF is_full(R1) THEN flush(R1) ELSE R1

\* The discard tests without the test against the right border.
is_discarded_no_right(R, start_x, end_x) ==
    \/ RGe(start_x, end_x)
    \/ RLt(end_x, RZero)

\* The three early returns of clamped_rasterline.
is_discarded(R, start_x, end_x) ==
    \/ RGe(start_x, end_x)
    \/ RLt(end_x, RZero)
    \/ RGe(start_x, FromInt(R.x))

\* The end column left as column_for gives it.
clamp_end_none(R, end_xi) == end_xi

\* The end column pinned to the buffer width.
clamp_end(R, end_xi) == IF end_xi > R.x THEN R.x ELSE end_xi

\* clamped_rasterline counting the clamped start and the clamped end
\* separately.
clamped_rasterline_counts_ends(R, y, start_x, end_x, start_data, end_data) ==
    LET s1 == increase_rasterlines(R.stats)
    IN  IF is_discarded(R, start_x, end_x)
        THEN [stats |-> increase_discarded_rasterlines(s1), ret |-> NullOpt]
        ELSE
        LET add_x == RDiv(RSub(end_data, start_data), RSub(end_x, start_x))
            start_xi0 == column_for(start_x)
            delta0 == distance_to_column_anchor(start_x)
            start_clamped == start_xi0 < 0
            delta_to_anchor == IF start_clamped
                               THEN RAdd(delta0, FromInt(-start_xi0))
                               ELSE delta0
            start_xi == IF start_clamped THEN 0 ELSE start_xi0
            start_data1 == RAdd(start_data, RMul(add_x, delta_to_anchor))
            end_xi0 == column_for(end_x)
            end_xi == clamp_end(R, end_xi0)
            end_clamped == end_xi # end_xi0
            s2 == IF start_clamped THEN increase_clamped_rasterlines(s1) ELSE s1
        IN  [stats |-> IF end_clamped THEN increase_clamped_rasterlines(s2)
                       ELSE s2,
             ret |-> Some(Rasterline(y, start_xi, end_xi, start_data1, add_x))]

\* clamped_rasterline that clamps the start column without moving the
\* start payload to the anchor of column 0.
clamped_rasterline_keeps_delta(R, y, start_x, end_x, start_data, end_data) ==
    LET s1 == increase_rasterlines(R.stats)
    IN  IF is_discarded(R, start_x, end_x)
        THEN [stats |-> increase_discarded_rasterlines(s1), ret |-> NullOpt]
        ELSE
        LET add_x == RDiv(RSub(end_data, start_data), RSub(end_x, start_x))
            start_xi0 == column_for(start_x)
            delta0 == distance_to_column_anchor(start_x)
            start_clamped == start_xi0 < 0
            start_xi == IF start_clamped THEN 0 ELSE start_xi0
            start_data1 == RAdd(start_data, RMul(add_x, delta0))
            end_xi0 == column_for(end_x)
            end_xi == clamp_end(R, end_xi0)
            end_clamped == end_xi # end_xi0
            is_clamped == start_clamped \/ end_clamped
        IN  [stats |-> IF is_clamped THEN increase_clamped_rasterlines(s1)
                       ELSE s1,
             ret |-> Some(Rasterline(y, start_xi, end_xi, start_data1, add_x))]

\* Returns [stats, ret]: the statistics after the call and the optional
\* rasterline.
clamped_rasterline(R, y, start_x, end_x, start_data, end_data) ==
    LET s1 == increase_rasterlines(R.stats)
    IN  IF is_discarded(R, start_x, end_x)
        THEN [stats |-> increase_discarded_rasterlines(s1), ret |-> NullOpt]
        ELSE
        LET add_x == RDiv(RSub(end_data, start_data), RSub(end_x, start_x))
            start_xi0 == column_for(start_x)
            delta0 == distance_to_column_anchor(start_x)
            start_clamped == start_xi0 < 0
            delta_to_anchor == IF start_clamped
                               THEN RAdd(delta0, FromInt(-start_xi0))
                               ELSE delta0
            start_xi == IF start_clamped THEN 0 ELSE start_xi0
            start_data1 == RAdd(start_data, RMul(add_x, delta_to_anchor))
            end_xi0 == column_for(end_x)
            end_xi == clamp_end(R, end_xi0)
            end_clamped == end_xi # end_xi0
            is_clamped == start_clamped \/ end_clamped
        IN  [stats |-> IF is_clamped THEN increase_clamped_rasterlines(s1)
                       ELSE s1,
             ret |-> Some(Rasterline(y, start_xi, end_xi, start_data1, add_x))]

\* calc_vertex_output_data that returns the difference for every y-span.
calc_vertex_output_data_never_divides(from, to) == operator_sub(to, from)

calc_vertex_output_data(from, to) ==
    LET num_rasterlines == RSub(to.coord[2], from.coord[2])
    IN  IF num_rasterlines = RZero THEN operator_sub(to, from)
        ELSE operator_div(operator_sub(to, from), num_rasterlines)

\* order_triangle_vertices whose search for mid only skips sorted[0].
order_triangle_vertices_mid_skips_top_only(vertex_out) ==
    LET Y(i) == vertex_out[i].coord[2]
        min1 == IF RLt(Y(2), Y(1)) THEN 2 ELSE 1
        sorted0 == IF RLt(Y(3), Y(min1)) THEN 3 ELSE min1
        max1 == IF RGt(Y(2), Y(1)) THEN 2 ELSE 1
        sorted2 == IF RGt(Y(3), Y(max1)) THEN 3 ELSE max1
    IN  IF Y(sorted0) = Y(sorted2) THEN <<1, 2, 3>>
        ELSE LET others == {i \in 1..3 : i # sorted0}
                 sorted1 == CHOOSE i \in others : \A j \in others : i <= j
             IN  <<sorted0, sorted1, sorted2>>

\* Returns the indices (1..3) into vertex_out of top, mid and bottom.
order_triangle_vertices(vertex_out) ==
    LET Y(i) == vertex_out[i].coord[2]
        min1 == IF RLt(Y(2), Y(1)) THEN 2 ELSE 1
        sorted0 == IF RLt(Y(3), Y(min1)) THEN 3 ELSE min1
        max1 == IF RGt(Y(2), Y(1)) THEN 2 ELSE 1
        sorted2 == IF RGt(Y(3), Y(max1)) THEN 3 ELSE max1
    IN  IF Y(sorted0) = Y(sorted2) THEN <<1, 2, 3>>
        ELSE LET others == {i \in 1..3 : i # sorted0 /\ i # sorted2}
                 sorted1 == CHOOSE i \in others : \A j \in others : i <= j
             IN  <<sorted0, sorted1, sorted2>>

\* One clamped_rasterline call as it is logged in `calls`.
CallRecord(y, start_x, end_x, c, stats_before) ==
    [y |-> y, start_x |-> start_x, end_x |-> end_x, ret |-> c.ret,
     stats_before |-> stats_before, stats_after |-> c.stats]

\* The loop body that drops a returned rasterline without columns instead of
\* appending it.
append_optional_skips_empty(R, v, left, right, c) ==
    IF c.ret.has_value /\ c.ret.value.start_x < c.ret.value.end_x
    THEN append([R EXCEPT !.stats = c.stats,
                          !.calls = Append(@, CallRecord(v, left.coord[1],
                                                         right.coord[1], c,
                                                         R.stats))],
                c.ret.value)
    ELSE [R EXCEPT !.stats = c.stats,
                   !.calls = Append(@, CallRecord(v, left.coord[1],
                                                  right.coord[1], c, R.stats))]

\* What a scanline loop does with the outcome c of clamped_rasterline on
\* row v: the statistics are those of the call, the rasterline is appended.
append_optional(R, v, left, right, c) ==
    IF c.ret.has_value
    THEN append([R EXCEPT !.stats = c.stats,
                          !.calls = Append(@, CallRecord(v, left.coord[1],
                                                         right.coord[1], c,
                                                         R.stats))],
                c.ret.value)
    ELSE [R EXCEPT !.stats = c.stats,
                   !.calls = Append(@, CallRecord(v, left.coord[1],
                                                  right.coord[1], c, R.stats))]

\* The body of a scanline loop without the test of v against the buffer
\* height.
scan_row_unguarded(R, v, left, right) ==
    append_optional([R EXCEPT !.rows = Append(@, v)], v, left, right,
                    clamped_rasterline(R, v, left.coord[1], right.coord[1],
                                       left.data, right.data))

\* The body of a scanline loop before the edges are advanced.
scan_row(R, v, left, right) ==
    IF v >= 0 /\ v < R.y
    THEN append_optional([R EXCEPT !.rows = Append(@, v)], v, left, right,
                         clamped_rasterline(R, v, left.coord[1], right.coord[1],
                                            left.data, right.data))
    ELSE [R EXCEPT !.rows = Append(@, v)]

\* Both scanline loops of rasterize_triangle: rows v .. last - 1.  Returns
\* the state, the loop variable and both edges after the loop.
RECURSIVE scan_rows(_, _, _, _, _, _, _)
scan_rows(R, v, last, left, right, left_add, right_add) ==
    IF ~(v < last) THEN [R |-> R, v |-> v, left |-> left, right |-> right]
    ELSE scan_rows(scan_row(R, v, left, right), v + 1, last,
                   operator_add_assign(left, left_add),
                   operator_add_assign(right, right_add),
                   left_add, right_add)

\* sorted_vertices dereferenced: <<top, mid, bottom>>.
sorted_vertices(vertex_out) ==
    LET sorted == order_triangle_vertices(vertex_out)
    IN  <<vertex_out[sorted[1]], vertex_out[sorted[2]], vertex_out[sorted[3]]>>

\* The increments left as they were computed.
winding_order_never_swaps(left_add, right_add) ==
    [left_add |-> left_add, right_add |-> right_add]

\* std::swap(left_add, right_add) when the right increment is the smaller.
winding_order(left_add, right_add) ==
    IF RLt(right_add.coord[1], left_add.coord[1])
    THEN [left_add |-> right_add, right_add |-> left_add]
    ELSE [left_add |-> left_add, right_add |-> right_add]

\* The increments of the left and the right edge from the top vertex.
edge_increments(sv) ==
    IF RLt(sv[2].coord[1], sv[3].coord[1])
    THEN winding_order(calc_vertex_output_data(sv[1], sv[2]),
                       calc_vertex_output_data(sv[1], sv[3]))
    ELSE winding_order(calc_vertex_output_data(sv[1], sv[3]),
                       calc_vertex_output_data(sv[1], sv[2]))

\* The substep of both edges to the anchor of the first scanline.
anchor_substep(sv, add) ==
    [left |-> operator_add_assign(sv[1],
                 operator_mul(add.left_add,
                              distance_to_scanline_anchor(sv[1].coord[2]))),
     right |-> operator_add_assign(sv[1],
                 operator_mul(add.right_add,
                              distance_to_scanline_anchor(sv[1].coord[2]))),
     left_add |-> add.left_add, right_add |-> add.right_add]

\* rasterize_triangle up to the first scanline loop: both edges and their
\* increments after the winding swap and the anchor substep.
edge_setup(sv) == anchor_substep(sv, edge_increments(sv))

\* The edge from mid towards bottom, started at the anchor of mid's row.
restart_edge(sv, new_add) ==
    [add |-> new_add,
     edge |-> operator_add_assign(sv[2],
                 operator_mul(new_add,
                              distance_to_scanline_anchor(sv[2].coord[2])))]

\* The replacement with <= for <: the left edge is replaced on equal
\* distances.
replace_closer_edge_left_on_tie(sv, left, right, left_add, right_add, n) ==
    IF RLe(RAbs(RSub(left.coord[1], sv[2].coord[1])),
           RAbs(RSub(right.coord[1], sv[2].coord[1])))
    THEN [left |-> n.edge, right |-> right,
          left_add |-> n.add, right_add |-> right_add]
    ELSE [left |-> left, right |-> n.edge,
          left_add |-> left_add, right_add |-> n.add]

\* The replacement of the edge that is closer to mid by the new edge n.
replace_closer_edge(sv, left, right, left_add, right_add, n) ==
    IF RLt(RAbs(RSub(left.coord[1], sv[2].coord[1])),
           RAbs(RSub(right.coord[1], sv[2].coord[1])))
    THEN [left |-> n.edge, right |-> right,
          left_add |-> n.add, right_add |-> right_add]
    ELSE [left |-> left, right |-> n.edge,
          left_add |-> left_add, right_add |-> n.add]

\* The edge replacement between the two scanline loops.  abs is the float
\* overload.
hand_off(sv, left, right, left_add, right_add) ==
    replace_closer_edge(sv, left, right, left_add, right_add,
                        restart_edge(sv, calc_vertex_output_data(sv[2], sv[3])))

\* The state after the first loop p1 with the edge replacement h logged.
log_hand_off(p1, h) ==
    [p1.R EXCEPT !.edges.before = [left |-> p1.left, right |-> p1.right],
                 !.edges.after = h]

\* The second scanline loop running to scanline_for(bottom.y) + 1.
second_loop_two_more(sv, p1, h) ==
    scan_rows(log_hand_off(p1, h), p1.v, scanline_for(sv[3].coord[2]) + 2,
              h.left, h.right, h.left_add, h.right_add).R

\* The second scanline loop, from where the first one stopped to max_v.
second_loop(sv, p1, h) ==
    scan_rows(log_hand_off(p1, h), p1.v, scanline_for(sv[3].coord[2]) - 1,
              h.left, h.right, h.left_add, h.right_add).R

\* The hand-off after the first loop p1 and the second loop.
after_first_loop(sv, e, p1) ==
    second_loop(sv, p1,
                hand_off(sv, p1.left, p1.right, e.left_add, e.right_add))

\* The first scanline loop, min_v to mid_v, and what follows it.
first_loop(R, sv, e) ==
    after_first_loop(sv, e,
        scan_rows([R EXCEPT !.edges.sv = sv, !.edges.setup = e],
                  scanline_for(sv[1].coord[2]),
                  scanline_for(sv[2].coord[2]),
                  e.left, e.right, e.left_add, e.right_add))

rasterize_sorted(R, sv) == first_loop(R, sv, edge_setup(sv))

rasterize_triangle(R, vertex_out) ==
    rasterize_sorted(R, sorted_vertices(vertex_out))

\* The vertex stage of the model passes the input through: the input is the
\* pixel-space coordinate and the payload.
vertex(input) == VertexOut(input.coord[1], input.coord[2], input.data)

\* The rejection test with > for >= on the right and bottom border.
triangle_not_visible_strict(R, vertex_out) ==
    LET X(i) == vertex_out[i].coord[1]
        Y(i) == vertex_out[i].coord[2]
    IN  \/ (RLt(X(1), RZero) /\ RLt(X(2), RZero) /\ RLt(X(3), RZero))
        \/ (RLt(Y(1), RZero) /\ RLt(Y(2), RZero) /\ RLt(Y(3), RZero))
        \/ (RGt(X(1), FromInt(R.x)) /\ RGt(X(2), FromInt(R.x))
            /\ RGt(X(3), FromInt(R.x)))
        \/ (RGt(Y(1), FromInt(R.y)) /\ RGt(Y(2), FromInt(R.y))
            /\ RGt(Y(3), FromInt(R.y)))

triangle_not_visible(R, vertex_out) ==
    LET X(i) == vertex_out[i].coord[1]
        Y(i) == vertex_out[i].coord[2]
    IN  \/ (RLt(X(1), RZero) /\ RLt(X(2), RZero) /\ RLt(X(3), RZero))
        \/ (RLt(Y(1), RZero) /\ RLt(Y(2), RZero) /\ RLt(Y(3), RZero))
        \/ (RGe(X(1), FromInt(R.x)) /\ RGe(X(2), FromInt(R.x))
            /\ RGe(X(3), FromInt(R.x)))
        \/ (RGe(Y(1), FromInt(R.y)) /\ RGe(Y(2), FromInt(R.y))
            /\ RGe(Y(3), FromInt(R.y)))

draw_triangle(R, p1, p2, p3) ==
    LET R1 == [R EXCEPT !.stats = increase_triangles(@)]
        vertex_out == <<vertex(p1), vertex(p2), vertex(p3)>>
    IN  IF triangle_not_visible(R1, vertex_out)
        THEN [R1 EXCEPT !.stats = increase_discarded_triangles(@)]
        ELSE rasterize_triangle(R1, vertex_out)

(***************************************************************************)
(* OneapiDevice: the device memory of device_memory objects.               *)
(*                                                                         *)
(* The methods work on a record D of the device and of the device_memory   *)
(* objects it is given:                                                    *)
(*   mem               the device_memory objects: type, device_pointer     *)
(*                     (0 is the null pointer), device_size and            *)
(*                     memory_size, the value of mem.memory_size()         *)
(*   mem_used          stats.mem_used                                      *)
(*   have_error        an error was set with set_error                     *)
(*   need_texture_info, texture_info (the data pointer of each slot),      *)
(*   kg_memory         the pointer set for each name by                    *)
(*                     oneapi_set_global_memory                            *)
(* and of the ghost state:                                                 *)
(*   allocations       pointers returned by oneapi_usm_alloc_device and    *)
(*                     not yet given to oneapi_usm_free                    *)
(*   issued            <<operation, destination>> of the memcpy and memset *)
(*                     calls of the running public call                    *)
(*   alloc_failed      oneapi_usm_alloc_device returned null in the        *)
(*                     running public call                                 *)
(*   request           <<method, object>> of the running public call       *)
(*   served            number of public calls so far                       *)
(* The asserts are compiled out (release build).                           *)
(***************************************************************************)
device_memory(type, memory_size) ==
    [type |-> type, memory_size |-> memory_size, device_pointer |-> 0,
     device_size |-> 0]

\* The device after OneapiDevice::OneapiDevice, with the objects mems.
OneapiDevice(mems) ==
    [mem |-> mems, mem_used |-> 0, have_error |-> FALSE,
     need_texture_info |-> FALSE,
     texture_info |-> [o \in DOMAIN mems |-> 0],
     kg_memory |-> [o \in DOMAIN mems |-> 0],
     allocations |-> {}, issued |-> <<>>, alloc_failed |-> FALSE,
     request |-> <<"none", 0>>, served |-> 0]

\* The device pointer kg_memory_device, which is not null.
kg_memory_device == 1000

\* Stats::mem_alloc and Stats::mem_free.
stats_mem_alloc(D, size) == [D EXCEPT !.mem_used = @ + size]
stats_mem_free(D, size) == [D EXCEPT !.mem_used = @ - size]

\* What oneapi_usm_alloc_device can return: null, or a pointer that is not
\* allocated.
oneapi_usm_alloc_device(D) ==
    {0, CHOOSE q \in 1..(Cardinality(D.allocations) + 1) :
            q \notin D.allocations}

oneapi_usm_free(D, pointer) == [D EXCEPT !.allocations = @ \ {pointer}]

oneapi_usm_memcpy(D, dest) == [D EXCEPT !.issued = Append(@, <<"memcpy", dest>>)]

oneapi_usm_memset(D, dest) == [D EXCEPT !.issued = Append(@, <<"memset", dest>>)]

set_error(D) == [D EXCEPT !.have_error = TRUE]

\* generic_alloc(mem) where oneapi_usm_alloc_device returns pointer.
generic_alloc(D, o, pointer) ==
    IF pointer = 0
    THEN [set_error(D) EXCEPT !.alloc_failed = TRUE]
    ELSE stats_mem_alloc(
             [D EXCEPT !.mem[o].device_pointer = pointer,
                       !.mem[o].device_size = D.mem[o].memory_size,
                       !.allocations = @ \cup {pointer}],
             D.mem[o].memory_size)

generic_copy_to(D, o) == oneapi_usm_memcpy(D, D.mem[o].device_pointer)

generic_free(D, o) ==
    LET D1 == [stats_mem_free(D, D.mem[o].device_size)
                  EXCEPT !.mem[o].device_size = 0]
        D2 == oneapi_usm_free(D1, D1.mem[o].device_pointer)
    IN  [D2 EXCEPT !.mem[o].device_pointer = 0]

mem_alloc(D, o, pointer) ==
    IF D.mem[o].type = "MEM_TEXTURE" THEN D
    ELSE IF D.mem[o].type = "MEM_GLOBAL" THEN D
    ELSE generic_alloc(D, o, pointer)

global_alloc(D, o, pointer) ==
    LET D1 == generic_copy_to(generic_alloc(D, o, pointer), o)
        D2 == [D1 EXCEPT !.kg_memory[o] = D1.mem[o].device_pointer]
    IN  oneapi_usm_memcpy(D2, kg_memory_device)

global_free(D, o) ==
    IF D.mem[o].device_pointer # 0 THEN generic_free(D, o) ELSE D

tex_alloc(D, o, pointer) ==
    LET D1 == generic_copy_to(generic_alloc(D, o, pointer), o)
    IN  [D1 EXCEPT !.need_texture_info = TRUE,
                   !.texture_info[o] = D1.mem[o].device_pointer]

tex_free(D, o) ==
    IF D.mem[o].device_pointer # 0 THEN generic_free(D, o) ELSE D

mem_copy_to(D, o, pointer) ==
    IF D.mem[o].type = "MEM_GLOBAL"
    THEN global_alloc(global_free(D, o), o, pointer)
    ELSE IF D.mem[o].type = "MEM_TEXTURE"
    THEN tex_alloc(tex_free(D, o), o, pointer)
    ELSE generic_copy_to(IF D.mem[o].device_pointer = 0
                         THEN mem_alloc(D, o, pointer) ELSE D, o)

\* mem_zero(mem) where oneapi_usm_memset returns is_finished_ok.
mem_zero(D, o, pointer, is_finished_ok) ==
    LET D1 == IF D.mem[o].device_pointer = 0 THEN mem_alloc(D, o, pointer)
              ELSE D
    IN  IF D1.mem[o].device_pointer = 0 THEN D1
        ELSE IF is_finished_ok
        THEN oneapi_usm_memset(D1, D1.mem[o].device_pointer)
        ELSE set_error(oneapi_usm_memset(D1, D1.mem[o].device_pointer))

mem_free(D, o) ==
    IF D.mem[o].type = "MEM_GLOBAL" THEN global_free(D, o)
    ELSE IF D.mem[o].type = "MEM_TEXTURE" THEN tex_free(D, o)
    ELSE generic_free(D, o)

(***************************************************************************)
(* State.                                                                  *)
(***************************************************************************)
VARIABLES
    image_buffer_,  \* [x, y, rect_float]: the destination ImBuf
    rasterlines_,   \* rasterlines_.buffer
    stats,          \* the statistics
    alive,          \* FALSE once the destructor has run
    ops,            \* ghost: the public calls made so far, each with the
                    \*   buffer size it found, the pixel indices it stored
                    \*   the rows its scanline loops ran for and its edges
    calls,          \* ghost: clamped_rasterline calls of the last draw_triangle
    render_log,     \* ghost: ids handed to render_rasterline, in order
    appended,       \* ghost: number of append() calls
    probe,          \* ghost: the last evaluation of a method on its own, with
                    \*   its arguments and its result
    oneapi          \* the OneapiDevice and the device_memory objects it is
                    \*   given

vars == <<image_buffer_, rasterlines_, stats, alive, ops, calls, render_log,
          appended, probe, oneapi>>

\* The record the methods work on, for one public call.
Cur ==
    [y |-> image_buffer_.y, x |-> image_buffer_.x,
     rect_float |-> image_buffer_.rect_float, written |-> {},
     render_log |-> render_log, rasterlines_ |-> rasterlines_,
     stats |-> stats, appended |-> appended, calls |-> <<>>, rows |-> <<>>,
     edges |-> [sv |-> <<>>, before |-> <<>>, after |-> <<>>, setup |-> <<>>]]

\* Stores the outcome R of the public call `name`.
Commit(R, name, tri) ==
    /\ image_buffer_' = [image_buffer_ EXCEPT !.rect_float = R.rect_float]
    /\ rasterlines_' = R.rasterlines_
    /\ stats' = R.stats
    /\ render_log' = R.render_log
    /\ appended' = R.appended
    /\ calls' = R.calls
    /\ probe' = probe
    /\ oneapi' = oneapi
    /\ ops' = Append(ops, [written |-> R.written, rows |-> R.rows,
                           edges |-> R.edges, name |-> name, tri |-> tri,
                           pre_size |-> Len(rasterlines_)])

(***************************************************************************)
(* Inputs.                                                                 *)
(***************************************************************************)
\* Vertex inputs: corner (x, y) with payload 1.0, corner (x2/2, y2/2) with
\* payload 1.0, corner (x, y) with payload d.
P(x, y) == [data |-> FromInt(1), coord |-> <<FromInt(x), FromInt(y)>>]
PH(x2, y2) == [data |-> FromInt(1), coord |-> <<Rat(x2, 2), Rat(y2, 2)>>]
PD(x, y, d) == [data |-> FromInt(d), coord |-> <<FromInt(x), FromInt(y)>>]

\* Triangles of the call-sequence specification, for a 4x4 buffer: three
\* rasterlines, one, two, four, a triangle left of the buffer, and a thin
\* triangle across the right border of which one span is inside, one is
\* clamped and one is discarded.
Triangles ==
    { <<P(0, 0), P(4, 0), P(0, 4)>>,
      <<P(0, 0), P(4, 0), P(0, 2)>>,
      <<P(0, 0), P(4, 0), P(0, 3)>>,
      <<P(0, 0), P(2, 0), P(0, 5)>>,
      <<P(-2, 0), P(-1, 3), P(-2, 2)>>,
      <<P(0, 0), P(9, 3), PH(11, 6)>> }

Sizes == { <<4, 4>> }

\* Corners of the single-triangle specification: inside, on the border and
\* on every side outside of the buffers, at integer and half-pixel positions,
\* with equal and with different payloads.
GeoPoints ==
    { P(0, 0), P(4, 0), P(0, 4), P(4, 2), P(-2, 1), P(9, 3),
      PH(5, -4), PH(3, 17), PH(11, 6), PD(2, 3, 3), PD(6, 7, 0) }

GeoTriangles == GeoPoints \X GeoPoints \X GeoPoints

GeoSizes == { <<8, 8>>, <<4, 3>> }

\* Corners outside of the 4x4 buffer of Sizes: two on each diagonal line
\* that passes a corner of the buffer at a distance, one beyond each of these
\* lines, two at half-pixel positions, and the corners of a flat triangle
\* left of the lower left corner whose long edge crosses y = 4 at x = -1.
CornerPoints ==
    { P(-3, 2), P(2, -3), P(7, 2), P(2, 7),
      P(-1, -1), P(5, 5), P(5, -1), P(-1, 5),
      PH(-5, 3), PH(13, 5),
      PH(-8, 7), PH(4, 9), PH(-12, 9) }

CornerTriangles == CornerPoints \X CornerPoints \X CornerPoints

\* Values an element of rasterlines_.buffer that was never assigned can
\* hold: all-zero memory, and a line on the last row that runs over the end
\* of the row.
Uninitialized(w, h) ==
    { Rasterline(0, 0, 0, RZero, RZero),
      Rasterline(h - 1, w - 1, w + 1, FromInt(7), RZero) }

\* The device_memory objects given to the device: one that is neither
\* global nor texture memory, one global, one texture.
MemObjects ==
    <<device_memory("MEM_READ_WRITE", 1), device_memory("MEM_GLOBAL", 1),
      device_memory("MEM_TEXTURE", 1)>>

\* Values of mem.memory_size(): the owner of a device_memory object can
\* resize its host memory between two calls.
MemorySizes == {1, 2}

\* No method was evaluated on its own.  A probe is <<name, arguments,
\* result>>.
NoProbe == <<"none", <<>>, <<>>>>

(***************************************************************************)
(* Construction.  Rasterlines() initialises buffer with                    *)
(* Vector<Rasterline>(BufferSize), the constructor that creates a vector   *)
(* of BufferSize default-constructed elements; Rasterline() = default      *)
(* leaves the members of these elements uninitialised.                     *)
(***************************************************************************)
Construct(sizes) ==
    /\ \E wh \in sizes :
         /\ image_buffer_ = [y |-> wh[2], x |-> wh[1],
                             rect_float |->
                                 [i \in 0..(wh[1] * wh[2] - 1) |-> RZero]]
         /\ rasterlines_ \in [1..RasterlinesSize -> Uninitialized(wh[1], wh[2])]
    /\ stats = StatsInit
    /\ alive = TRUE
    /\ ops = <<>>
    /\ calls = <<>>
    /\ render_log = <<>>
    /\ appended = 0
    /\ probe = NoProbe
    /\ oneapi = OneapiDevice(MemObjects)

Init == Construct(Sizes)
InitGeo == Construct(GeoSizes)

(***************************************************************************)
(* Public calls.                                                           *)
(***************************************************************************)
DrawTriangle(tri) ==
    /\ alive
    /\ Len(ops) < MaxOps
    /\ Commit(draw_triangle(Cur, tri[1], tri[2], tri[3]), "draw_triangle", tri)
    /\ UNCHANGED alive

Flush ==
    /\ alive
    /\ Len(ops) < MaxOps
    /\ Commit([flush(Cur) EXCEPT !.calls = calls], "flush", <<>>)
    /\ UNCHANGED alive

Destructor ==
    /\ alive
    /\ Len(ops) < MaxOps
    /\ Commit([flush(Cur) EXCEPT !.calls = calls], "destructor", <<>>)
    /\ alive' = FALSE

Draw == \E tri \in Triangles : DrawTriangle(tri)

\* A rasterizer that is given a single triangle.
DrawGeo == \E tri \in GeoTriangles : stats.triangles = 0 /\ DrawTriangle(tri)

Next == Draw \/ Flush \/ Destructor
NextGeo == DrawGeo \/ Flush \/ Destructor

\* A rasterizer that is given a single triangle with its corners outside of
\* the buffer, around the four corners of the buffer.
DrawCorner ==
    \E tri \in CornerTriangles : stats.triangles = 0 /\ DrawTriangle(tri)

NextCorner == DrawCorner \/ Flush \/ Destructor

Spec == Init /\ [][Next]_vars
SpecGeo == InitGeo /\ [][NextGeo]_vars
SpecCorner == Init /\ [][NextCorner]_vars

(***************************************************************************)
(* The methods of VertexOutInterface and the private methods of Rasterizer *)
(* evaluated on their own, on arguments drawn from bounded sets.           *)
(***************************************************************************)
\* Coordinates, payloads and scalars: negative, zero, fractional, integer.
ProbeCoords == { FromInt(-2), RZero, RHalf, FromInt(3) }
ProbeData == { RZero, FromInt(1), Rat(-3, 2) }
ProbeScalars == { RZero, FromInt(1), RHalf, FromInt(-2), Rat(3, 4) }

ProbeRecords ==
    { VertexOut(x, y, d) : x \in ProbeCoords, y \in ProbeCoords,
                           d \in ProbeData }

ProbeName == probe[1]
ProbeArg(k) == probe[2][k]
ProbeResult == probe[3]

\* One evaluation on a rasterizer on which none was made.
Evaluate(name, arguments, result) ==
    /\ ProbeName = "none"
    /\ probe' = <<name, arguments, result>>
    /\ UNCHANGED <<image_buffer_, rasterlines_, stats, alive, ops, calls,
                   render_log, appended, oneapi>>

\* r * k
Multiply ==
    \E r \in ProbeRecords, k \in ProbeScalars :
        Evaluate("operator*", <<r, k>>, operator_mul(r, k))

\* (r / k) * k, k # 0
DivideMultiply ==
    \E r \in ProbeRecords, k \in ProbeScalars \ {RZero} :
        Evaluate("operator/*", <<r, k>>, operator_mul(operator_div(r, k), k))

\* order_triangle_vertices(vertex_out)
Order ==
    \E tri \in GeoTriangles :
        Evaluate("order_triangle_vertices",
                 <<<<vertex(tri[1]), vertex(tri[2]), vertex(tri[3])>>>>,
                 order_triangle_vertices(
                     <<vertex(tri[1]), vertex(tri[2]), vertex(tri[3])>>))

\* Span borders left of, inside, on the border of and right of a buffer of
\* width 4, and payloads at the two ends of a span.
ProbeXs ==
    { FromInt(-5), Rat(-3, 4), Rat(-1, 4), Rat(1, 4), RHalf, Rat(3, 4),
      FromInt(2), Rat(7, 2), FromInt(4), Rat(19, 4), FromInt(10) }
ProbePayloads == { RZero, FromInt(1), FromInt(3) }

\* The optional rasterline opt as <<has_value, value>>.
Optional(opt) == <<opt.has_value, opt.value>>

\* clamped_rasterline(y, start_x, end_x, start_data, end_data)
Clamp ==
    \E y \in {0, image_buffer_.y - 1}, start_x \in ProbeXs, end_x \in ProbeXs,
       start_data \in ProbePayloads, end_data \in ProbePayloads :
        Evaluate("clamped_rasterline",
                 <<y, start_x, end_x, start_data, end_data>>,
                 Optional(clamped_rasterline(Cur, y, start_x, end_x,
                                             start_data, end_data).ret))

\* calc_vertex_output_data(from, to)
CalcVertexOutputData ==
    \E from \in ProbeRecords, to \in ProbeRecords :
        Evaluate("calc_vertex_output_data", <<from, to>>,
                 calc_vertex_output_data(from, to))

\* Rasterlines as clamped_rasterline returns them for the buffer of R: a row
\* of the buffer, 0 <= start_x <= end_x <= width, any payload and step.
ProbeRasterlines(R) ==
    { Rasterline(y, start_x, end_x, start_data, delta_step) :
        y \in {0, R.y - 1}, start_x \in 0..R.x, end_x \in 0..R.x,
        start_data \in {FromInt(1), FromInt(3)},
        delta_step \in {RZero, RHalf, FromInt(-1)} }

\* render_rasterline(rasterline) on the buffer as it was constructed; the
\* result is <<rect_float, pixel indices stored to>>.
RenderRasterline ==
    \E rasterline \in {l \in ProbeRasterlines(Cur) : l.start_x <= l.end_x} :
        Evaluate("render_rasterline", <<rasterline>>,
                 <<render_rasterline(Cur, rasterline).rect_float,
                   render_rasterline(Cur, rasterline).written>>)

NextProbe ==
    \/ Multiply
    \/ DivideMultiply
    \/ Order
    \/ Clamp
    \/ CalcVertexOutputData
    \/ RenderRasterline

SpecProbe == Init /\ [][NextProbe]_vars

(***************************************************************************)
(* Calls of the memory methods of OneapiDevice on a device and on objects  *)
(* that the rasterizer does not use.                                       *)
(***************************************************************************)
\* The start of a public call: the ghost state of the call is reset.
Request(method, o) ==
    [oneapi EXCEPT !.issued = <<>>, !.alloc_failed = FALSE,
                   !.request = <<method, o>>, !.served = @ + 1]

\* Stores the outcome D of a public call of the device.
Serve(D) ==
    /\ oneapi.served < MaxOps
    /\ oneapi' = D
    /\ UNCHANGED <<image_buffer_, rasterlines_, stats, alive, ops, calls,
                   render_log, appended, probe>>

MemAlloc ==
    \E o \in DOMAIN oneapi.mem, pointer \in oneapi_usm_alloc_device(oneapi) :
        Serve(mem_alloc(Request("mem_alloc", o), o, pointer))

MemCopyTo ==
    \E o \in DOMAIN oneapi.mem, pointer \in oneapi_usm_alloc_device(oneapi) :
        Serve(mem_copy_to(Request("mem_copy_to", o), o, pointer))

MemZero ==
    \E o \in DOMAIN oneapi.mem, pointer \in oneapi_usm_alloc_device(oneapi),
       is_finished_ok \in BOOLEAN :
        Serve(mem_zero(Request("mem_zero", o), o, pointer, is_finished_ok))

MemFree ==
    \E o \in DOMAIN oneapi.mem : Serve(mem_free(Request("mem_free", o), o))

\* The owner of object o resizes its host memory.
Resize ==
    \E o \in DOMAIN oneapi.mem, size \in MemorySizes :
        /\ size # oneapi.mem[o].memory_size
        /\ oneapi' = [oneapi EXCEPT !.mem[o].memory_size = size]
        /\ UNCHANGED <<image_buffer_, rasterlines_, stats, alive, ops, calls,
                       render_log, appended, probe>>

\* The rasterizer is not used: its never-assigned buffer elements are not
\* read, and are taken as all-zero.
InitOneapi ==
    /\ Init
    /\ \A i \in DOMAIN rasterlines_ :
          rasterlines_[i] = Rasterline(0, 0, 0, RZero, RZero)

NextOneapi == MemAlloc \/ MemCopyTo \/ MemZero \/ MemFree \/ Resize

SpecOneapi == InitOneapi /\ [][NextOneapi]_vars

(***************************************************************************)
(* Helpers of the properties.                                              *)
(***************************************************************************)
LastOp == ops[Len(ops)]

\* rect_float[y * width + x] as a rational.
Pixel(x, y) == image_buffer_.rect_float[y * image_buffer_.x + x]

\* Twice the signed area of (a, b, c), a, b, c being <<x, y>> of rationals.
EdgeFunction(a, b, c) ==
    RSub(RMul(RSub(b[1], a[1]), RSub(c[2], a[2])),
         RMul(RSub(b[2], a[2]), RSub(c[1], a[1])))

\* Brute-force test: the centre of pixel (x, y) is in the closed triangle
\* (for a triangle without area: on the segment or point it collapses to).
CentreInTriangle(tri, x, y) ==
    LET c == <<Rat(2 * x + 1, 2), Rat(2 * y + 1, 2)>>
        e1 == EdgeFunction(tri[1].coord, tri[2].coord, c)
        e2 == EdgeFunction(tri[2].coord, tri[3].coord, c)
        e3 == EdgeFunction(tri[3].coord, tri[1].coord, c)
        InBox(k) == /\ \E i \in 1..3 : RLe(tri[i].coord[k], c[k])
                    /\ \E i \in 1..3 : RGe(tri[i].coord[k], c[k])
    IN  /\ InBox(1) /\ InBox(2)
        /\ \/ (RGe(e1, RZero) /\ RGe(e2, RZero) /\ RGe(e3, RZero))
           \/ (RLe(e1, RZero) /\ RLe(e2, RZero) /\ RLe(e3, RZero))

BruteForcePixels(tri) ==
    { y * image_buffer_.x + x : <<x, y>> \in
        { xy \in (0..(image_buffer_.x - 1)) \X (0..(image_buffer_.y - 1)) :
            CentreInTriangle(tri, xy[1], xy[2]) } }

\* All three corners lie inside the buffer rectangle.
CornersInBuffer(tri) ==
    \A i \in 1..3 :
        /\ RGe(tri[i].coord[1], RZero)
        /\ RLe(tri[i].coord[1], FromInt(image_buffer_.x))
        /\ RGe(tri[i].coord[2], RZero)
        /\ RLe(tri[i].coord[2], FromInt(image_buffer_.y))

RightTriangle == <<P(0, 0), P(4, 0), P(0, 4)>>

(***************************************************************************)
(* Properties.                                                             *)
(***************************************************************************)

\* C1: on a newly constructed rasterizer over an all-zero 8x8 buffer,
\* draw_triangle((0,0),(4,0),(0,4)) followed by flush() leaves exactly the
\* pixels with x + y < 4 at 1.0 and every other pixel at 0.0.
C1_EndToEnd ==
    ( /\ image_buffer_.x = 8 /\ image_buffer_.y = 8
      /\ Len(ops) = 2
      /\ ops[1].name = "draw_triangle" /\ ops[1].tri = RightTriangle
      /\ ops[2].name = "flush" )
    => \A x \in 0..7, y \in 0..7 :
         Pixel(x, y) = IF x + y < 4 THEN FromInt(1) ELSE RZero

\* C2: for a triangle whose corners lie inside the buffer, the pixels
\* written by draw_triangle followed by flush() are exactly the pixels whose
\* centre passes the brute-force point-in-triangle test.  Stated for a
\* draw_triangle that finds no rasterline pending, so that the two calls
\* render the rasterlines of this triangle only.
C2_MatchesBruteForce ==
    ( /\ Len(ops) >= 2
      /\ ops[Len(ops) - 1].name = "draw_triangle"
      /\ ops[Len(ops) - 1].pre_size = 0
      /\ LastOp.name = "flush"
      /\ CornersInBuffer(ops[Len(ops) - 1].tri) )
    => ops[Len(ops) - 1].written \cup LastOp.written
         = BruteForcePixels(ops[Len(ops) - 1].tri)

\* Number of positions of the sequence q that hold e.
Count(q, e) == Cardinality({i \in 1..Len(q) : q[i] = e})

PendingIds == [i \in 1..Len(rasterlines_) |-> rasterlines_[i].id]

\* C3: no buffered work is lost.  Every rasterline that was appended is
\* either still pending or was rendered, never both and never twice; once the
\* destructor has run every appended rasterline was rendered exactly once.
C3_RenderedExactlyOnce ==
    \A id \in 1..appended :
        /\ Count(PendingIds, id) + Count(render_log, id) = 1
        /\ ~alive => Count(render_log, id) = 1

\* The destructor found appended rasterlines pending and rendered them.
C3_Witness ==
    /\ ~alive
    /\ LastOp.name = "destructor"
    /\ LastOp.pre_size > 0
    /\ appended >= 2
    /\ render_log[Len(render_log)] = appended

\* Pixel indices rasterline l stores to, and the payload it stores at p.
Covers(l, p) ==
    \E x \in l.start_x..(l.end_x - 1) : l.y * image_buffer_.x + x = p
ValueAt(l, p) ==
    RAdd(l.start_data,
         RMul(l.delta_step, FromInt(p - l.y * image_buffer_.x - l.start_x)))

\* C4: flush() on a non-empty buffer renders every pending rasterline in
\* insertion order, increments the flush count by exactly one and leaves the
\* buffer empty; afterwards every pixel covered by a pending rasterline holds
\* the payload of the last pending rasterline that covers it.
C4_FlushRendersAll ==
    [][ ( /\ Len(ops') = Len(ops) + 1
          /\ ops'[Len(ops')].name = "flush"
          /\ rasterlines_ # <<>> )
        => /\ render_log' = render_log \o PendingIds
           /\ stats' = [stats EXCEPT !.flushes = @ + 1]
           /\ rasterlines_' = <<>>
           /\ \A p \in DOMAIN image_buffer_.rect_float :
                LET covering == {i \in 1..Len(rasterlines_) :
                                    Covers(rasterlines_[i], p)}
                    last == CHOOSE i \in covering : \A j \in covering : j <= i
                IN  image_buffer_'.rect_float[p] =
                        IF covering = {} THEN image_buffer_.rect_float[p]
                        ELSE ValueAt(rasterlines_[last], p)
      ]_vars

\* A flush() has rendered at least two pending rasterlines of a triangle.
C4_Witness ==
    /\ Len(ops) >= 2
    /\ LastOp.name = "flush"
    /\ LastOp.pre_size >= 2
    /\ ops[Len(ops) - 1].name = "draw_triangle"
    /\ appended >= 2
    /\ render_log[Len(render_log)] = appended
    /\ LastOp.written # {}

\* C5: starting from a newly constructed rasterizer with capacity N, the
\* N-th append has triggered exactly one automatic flush: the buffer is empty
\* and the flush counter is 1.
C5_AutoFlushAtCapacity ==
    ( /\ \A i \in 1..Len(ops) : ops[i].name = "draw_triangle"
      /\ appended = RasterlinesSize )
    => (stats.flushes = 1 /\ rasterlines_ = <<>>)

\* C6: the number of pending rasterlines never exceeds the capacity.
C6_SizeWithinCapacity == Len(rasterlines_) <= RasterlinesSize

\* C7: flush() with no rasterline pending writes no pixel, leaves the flush
\* counter and all other statistics unchanged and leaves the buffer empty.
C7_FlushIdempotent ==
    [][ ( /\ Len(ops') = Len(ops) + 1
          /\ ops'[Len(ops')].name = "flush"
          /\ rasterlines_ = <<>> )
        => /\ image_buffer_' = image_buffer_
           /\ ops'[Len(ops')].written = {}
           /\ stats' = stats
           /\ render_log' = render_log
           /\ rasterlines_' = <<>>
      ]_vars

\* A second flush() directly after a flush() that rendered rasterlines.
C7_Witness ==
    /\ Len(ops) >= 2
    /\ LastOp.name = "flush"
    /\ LastOp.pre_size = 0
    /\ ops[Len(ops) - 1].name = "flush"
    /\ ops[Len(ops) - 1].pre_size > 0
    /\ stats.flushes >= 1

\* The rasterlines clamped_rasterline returned during the last draw_triangle
\* and the appended rasterlines that are pending.
ReturnedLines ==
    {calls[i].ret.value : i \in {j \in 1..Len(calls) : calls[j].ret.has_value}}
    \cup {rasterlines_[i] : i \in {j \in 1..Len(rasterlines_) :
                                      rasterlines_[j].id > 0}}

\* C8: every rasterline that clamped_rasterline returns and that is appended
\* satisfies 0 <= row < height and 0 <= start_col < end_col <= width.
C8_RasterlineBounds ==
    \A l \in ReturnedLines :
        /\ 0 <= l.y /\ l.y < image_buffer_.y
        /\ 0 <= l.start_x /\ l.start_x < l.end_x
        /\ l.end_x <= image_buffer_.x

\* C8 as amended: 0 <= row < height and 0 <= start_col <= end_col <= width;
\* a returned rasterline can be empty.
C8_RasterlineBoundsNonStrict ==
    \A l \in ReturnedLines :
        /\ 0 <= l.y /\ l.y < image_buffer_.y
        /\ 0 <= l.start_x /\ l.start_x <= l.end_x
        /\ l.end_x <= image_buffer_.x

\* clamped_rasterline returned an empty rasterline, and one whose end was
\* pinned to the width.
C8_Witness ==
    /\ \E i \in 1..Len(calls) :
         /\ calls[i].ret.has_value
         /\ calls[i].ret.value.start_x = calls[i].ret.value.end_x
    /\ \E i \in 1..Len(calls) :
         /\ calls[i].ret.has_value
         /\ column_for(calls[i].end_x) > image_buffer_.x
         /\ calls[i].ret.value.end_x = image_buffer_.x

\* All three corners are left of, right of, above or below the buffer.
OutsideOnOneAxis(tri) ==
    LET dim == <<image_buffer_.x, image_buffer_.y>>
    IN  \E k \in 1..2 :
          \/ \A i \in 1..3 : RLt(tri[i].coord[k], RZero)
          \/ \A i \in 1..3 : ~RLt(tri[i].coord[k], FromInt(dim[k]))

\* C9: a triangle whose x are all < 0 or all >= width, or whose y are all
\* < 0 or all >= height, is discarded: the discarded-triangle counter (and
\* the triangle counter) increase by 1, no rasterline is built or appended
\* and no pixel is written.
C9_DiscardedOutside ==
    [][ ( /\ Len(ops') = Len(ops) + 1
          /\ ops'[Len(ops')].name = "draw_triangle"
          /\ OutsideOnOneAxis(ops'[Len(ops')].tri) )
        => /\ stats' = [stats EXCEPT !.triangles = @ + 1,
                                     !.discarded_triangles = @ + 1]
           /\ calls' = <<>>
           /\ appended' = appended
           /\ rasterlines_' = rasterlines_
           /\ render_log' = render_log
           /\ image_buffer_' = image_buffer_
           /\ ops'[Len(ops')].written = {}
      ]_vars

\* A triangle with all x >= width, one corner on x = width, was discarded.
C9_Witness ==
    /\ Len(ops) >= 1
    /\ LastOp.name = "draw_triangle"
    /\ \A i \in 1..3 : RGe(LastOp.tri[i].coord[1], FromInt(image_buffer_.x))
    /\ \E i \in 1..3 : LastOp.tri[i].coord[1] = FromInt(image_buffer_.x)
    /\ \E i, j \in 1..3 : LastOp.tri[i].coord[2] # LastOp.tri[j].coord[2]
    /\ stats.discarded_triangles = 1

\* The discard condition of clamped_rasterline as the claim states it.
ClaimedDiscard(c) ==
    \/ ~RLt(c.start_x, c.end_x)
    \/ RLt(c.end_x, RZero)
    \/ ~RLt(c.start_x, FromInt(image_buffer_.x))

\* C10: clamped_rasterline returns no rasterline and increments the
\* discarded-rasterline statistic by one if and only if start_x >= end_x or
\* end_x < 0 or start_x >= width; otherwise it returns a rasterline and
\* leaves that statistic unchanged.
C10_DiscardIff ==
    \A i \in 1..Len(calls) :
        LET c == calls[i]
        IN  /\ c.ret.has_value <=> ~ClaimedDiscard(c)
            /\ c.stats_after.discarded_rasterlines =
                 c.stats_before.discarded_rasterlines
                   + (IF ClaimedDiscard(c) THEN 1 ELSE 0)

\* One draw_triangle made a call that returned a rasterline and a call that
\* was discarded only for start_x >= width.
C10_Witness ==
    /\ \E i \in 1..Len(calls) : calls[i].ret.has_value
    /\ \E i \in 1..Len(calls) :
         /\ ~calls[i].ret.has_value
         /\ RLt(calls[i].start_x, calls[i].end_x)
         /\ RGe(calls[i].start_x, FromInt(image_buffer_.x))
    /\ stats.discarded_rasterlines >= 1

\* The clamped-rasterline statistic counted by call c of clamped_rasterline.
ClampedCount(c) ==
    c.stats_after.clamped_rasterlines - c.stats_before.clamped_rasterlines

StartNeedsClamping(c) == column_for(c.start_x) < 0
EndNeedsClamping(c) == column_for(c.end_x) > image_buffer_.x

\* C11: for a rasterline that clamped_rasterline returns, the
\* clamped-rasterline statistic increases by exactly 1 when the start, the
\* end or both were clamped, and by 0 when neither was.
C11_ClampedCountedOnce ==
    \A i \in 1..Len(calls) :
        calls[i].ret.has_value =>
            ClampedCount(calls[i]) =
                IF StartNeedsClamping(calls[i]) \/ EndNeedsClamping(calls[i])
                THEN 1 ELSE 0

\* One draw_triangle returned a rasterline clamped on both ends, counted
\* once.
C11_Witness ==
    \E i \in 1..Len(calls) :
        /\ calls[i].ret.has_value
        /\ StartNeedsClamping(calls[i]) /\ EndNeedsClamping(calls[i])
        /\ calls[i].ret.value.start_x = 0
        /\ calls[i].ret.value.end_x = image_buffer_.x
        /\ ClampedCount(calls[i]) = 1

\* The three corners of tri have the same y.
SameY(tri) ==
    /\ tri[1].coord[2] = tri[2].coord[2]
    /\ tri[2].coord[2] = tri[3].coord[2]

\* C12: draw_triangle of a triangle whose three corners have identical y
\* produces rasterlines on at most one row: clamped_rasterline is called for
\* at most one row, returns at most one rasterline, and at most one
\* rasterline is appended.
C12_SameYAtMostOneRasterline ==
    [][ ( /\ Len(ops') = Len(ops) + 1
          /\ ops'[Len(ops')].name = "draw_triangle"
          /\ SameY(ops'[Len(ops')].tri) )
        => /\ Len(calls') <= 1
           /\ Cardinality({i \in 1..Len(calls') : calls'[i].ret.has_value}) <= 1
           /\ appended' <= appended + 1
      ]_vars

\* A triangle with three different corners on one y, which crosses the
\* buffer, went through rasterize_triangle.
C12_Witness ==
    /\ Len(ops) >= 1
    /\ LastOp.name = "draw_triangle"
    /\ SameY(LastOp.tri)
    /\ LastOp.tri[1] # LastOp.tri[2] /\ LastOp.tri[2] # LastOp.tri[3]
    /\ LastOp.tri[1] # LastOp.tri[3]
    /\ stats.triangles = 1 /\ stats.discarded_triangles = 0

\* Positions in the row log of op whose row is outside the buffer, and
\* inside it.
OutOfRangeRows(op) ==
    {i \in 1..Len(op.rows) : op.rows[i] < 0 \/ op.rows[i] >= image_buffer_.y}
InRangeRows(op) == (1..Len(op.rows)) \ OutOfRangeRows(op)

\* Number of logged clamped_rasterline calls that returned no rasterline.
DiscardedCalls(log) == Cardinality({i \in 1..Len(log) : ~log[i].ret.has_value})

\* C13: every scanline of a triangle's row range, also one outside the
\* buffer (row < 0 or row >= height), is counted as a rasterline seen, and
\* every scanline outside the buffer is counted as a rasterline discarded.
C13_OutOfRangeRowsCounted ==
    [][ ( /\ Len(ops') = Len(ops) + 1
          /\ ops'[Len(ops')].name = "draw_triangle" )
        => /\ stats'.rasterlines - stats.rasterlines = Len(ops'[Len(ops')].rows)
           /\ stats'.discarded_rasterlines - stats.discarded_rasterlines =
                 Cardinality(OutOfRangeRows(ops'[Len(ops')]))
                   + DiscardedCalls(calls')
      ]_vars

\* C13 as amended: a scanline outside the buffer is skipped without any
\* statistics increment.  clamped_rasterline is called for the rows inside
\* the buffer only, the rasterlines seen are these calls and the rasterlines
\* discarded are the calls that returned nothing.
C13_OutOfRangeRowsSkipped ==
    [][ ( /\ Len(ops') = Len(ops) + 1
          /\ ops'[Len(ops')].name = "draw_triangle" )
        => /\ Len(calls') = Cardinality(InRangeRows(ops'[Len(ops')]))
           /\ \A i \in 1..Len(calls') :
                 calls'[i].y >= 0 /\ calls'[i].y < image_buffer_.y
           /\ stats'.rasterlines - stats.rasterlines = Len(calls')
           /\ stats'.discarded_rasterlines - stats.discarded_rasterlines =
                 DiscardedCalls(calls')
           /\ appended' - appended = Len(calls') - DiscardedCalls(calls')
      ]_vars

\* One draw_triangle ran its scanline loops over rows above the buffer, rows
\* inside it and rows below it.
C13_Witness ==
    /\ Len(ops) >= 1
    /\ LastOp.name = "draw_triangle"
    /\ \E i \in 1..Len(LastOp.rows) : LastOp.rows[i] < 0
    /\ \E i \in 1..Len(LastOp.rows) : LastOp.rows[i] >= image_buffer_.y
    /\ Len(calls) >= 1
    /\ stats.rasterlines = Len(calls)

\* The record r scaled by k: coord = r.coord * k, data = r.data * k.
Scaled(r, k) ==
    [data |-> RMul(r.data, k),
     coord |-> <<RMul(r.coord[1], k), RMul(r.coord[2], k)>>]

\* C14: scalar multiplication is the vector-space operation: r * k has
\* coord = r.coord * k and data = r.data * k, so r * 0 is the zero record and
\* (r / k) * k = r for k # 0.
C14_ScalarMultiplication ==
    /\ ProbeName = "operator*" =>
          /\ ProbeResult = Scaled(ProbeArg(1), ProbeArg(2))
          /\ ProbeArg(2) = RZero =>
                ProbeResult = VertexOut(RZero, RZero, RZero)
    /\ ProbeName = "operator/*" => ProbeResult = ProbeArg(1)

Counters ==
    {"triangles", "discarded_triangles", "rasterlines",
     "discarded_rasterlines", "clamped_rasterlines", "flushes"}

\* C15: no draw_triangle, flush or destructor call decrements or resets any
\* of the six statistics counters.
C15_StatisticsMonotone ==
    [][\A c \in Counters : stats'[c] >= stats[c]]_vars

\* A flush() followed triangles that were counted, one of them discarded,
\* and rasterlines that were counted.
C15_Witness ==
    /\ Len(ops) >= 3
    /\ LastOp.name = "flush"
    /\ stats.flushes >= 1
    /\ stats.triangles >= 2
    /\ stats.discarded_triangles >= 1
    /\ stats.rasterlines >= 1

\* scanline_for of the smallest and of the largest y of tri.
TopScanline(tri) ==
    CHOOSE v \in {scanline_for(tri[i].coord[2]) : i \in 1..3} :
        \A i \in 1..3 : v <= scanline_for(tri[i].coord[2])
BottomScanline(tri) ==
    CHOOSE v \in {scanline_for(tri[i].coord[2]) : i \in 1..3} :
        \A i \in 1..3 : v >= scanline_for(tri[i].coord[2])

\* The rows first .. last in ascending order.
RowRange(first, last) ==
    IF last < first THEN <<>>
    ELSE [i \in 1..(last - first + 1) |-> first + i - 1]

\* C16: for a triangle that is not discarded, the two scanline loops visit
\* every row from scanline_for(top.y) up to and including
\* scanline_for(bottom.y) - 1 exactly once, and clamped_rasterline is called
\* exactly once for each visited row inside the buffer.
C16_RowsVisitedOnce ==
    [][ ( /\ Len(ops') = Len(ops) + 1
          /\ ops'[Len(ops')].name = "draw_triangle"
          /\ stats'.discarded_triangles = stats.discarded_triangles )
        => /\ ops'[Len(ops')].rows =
                 RowRange(TopScanline(ops'[Len(ops')].tri),
                          BottomScanline(ops'[Len(ops')].tri) - 1)
           /\ \A v \in 0..(image_buffer_.y - 1) :
                 Cardinality({i \in 1..Len(calls') : calls'[i].y = v}) =
                   Cardinality({i \in 1..Len(ops'[Len(ops')].rows) :
                                   ops'[Len(ops')].rows[i] = v})
      ]_vars

\* a + b * k for records a and b and the scalar k.
AddScaled(a, b, k) == operator_add_assign(a, Scaled(b, k))

\* C17: before the first scanline is sampled each edge equals
\* top + edge_increment * distance_to_scanline_anchor(top.y), and after the
\* hand-off the replaced edge equals
\* mid + new_increment * distance_to_scanline_anchor(mid.y).
C17_AnchorCorrection ==
    \A i \in 1..Len(ops) :
        (ops[i].name = "draw_triangle" /\ ops[i].edges.sv # <<>>) =>
            LET g == ops[i].edges
                d_top == distance_to_scanline_anchor(g.sv[1].coord[2])
                d_mid == distance_to_scanline_anchor(g.sv[2].coord[2])
            IN  /\ g.setup.left = AddScaled(g.sv[1], g.setup.left_add, d_top)
                /\ g.setup.right = AddScaled(g.sv[1], g.setup.right_add, d_top)
                /\ \/ /\ g.after.left # g.before.left
                      /\ g.after.left =
                           AddScaled(g.sv[2], g.after.left_add, d_mid)
                   \/ /\ g.after.right # g.before.right
                      /\ g.after.right =
                           AddScaled(g.sv[2], g.after.right_add, d_mid)
                   \/ /\ g.after.left = g.before.left
                      /\ g.after.right = g.before.right
                      /\ \/ g.after.left =
                              AddScaled(g.sv[2], g.after.left_add, d_mid)
                         \/ g.after.right =
                              AddScaled(g.sv[2], g.after.right_add, d_mid)

\* The y of the k-th vertex of the order evaluated on its own.
SortedY(k) == ProbeArg(1)[ProbeResult[k]].coord[2]

YDiffer(vertex_out) ==
    \E i, j \in 1..3 : vertex_out[i].coord[2] # vertex_out[j].coord[2]

\* C18: for a triangle whose minimum and maximum y differ,
\* order_triangle_vertices returns a permutation of the three corners with
\* top.y <= mid.y < bottom.y; when all three y are equal it returns the
\* original order.
C18_OrderStrict ==
    ProbeName = "order_triangle_vertices" =>
        IF YDiffer(ProbeArg(1))
        THEN /\ {ProbeResult[k] : k \in 1..3} = {1, 2, 3}
             /\ RLe(SortedY(1), SortedY(2))
             /\ RLt(SortedY(2), SortedY(3))
        ELSE ProbeResult = <<1, 2, 3>>

\* C18 as amended: top.y <= mid.y <= bottom.y and top.y < bottom.y; mid and
\* bottom can have the same y.
C18_OrderNonStrict ==
    ProbeName = "order_triangle_vertices" =>
        IF YDiffer(ProbeArg(1))
        THEN /\ {ProbeResult[k] : k \in 1..3} = {1, 2, 3}
             /\ RLe(SortedY(1), SortedY(2))
             /\ RLe(SortedY(2), SortedY(3))
             /\ RLt(SortedY(1), SortedY(3))
        ELSE ProbeResult = <<1, 2, 3>>

\* A triangle with three different corners, two of them on the largest y,
\* was ordered: mid and bottom have the same y.
C18_Witness ==
    /\ ProbeName = "order_triangle_vertices"
    /\ Cardinality({ProbeArg(1)[k] : k \in 1..3}) = 3
    /\ {ProbeResult[k] : k \in 1..3} = {1, 2, 3}
    /\ RLt(SortedY(1), SortedY(2))
    /\ SortedY(2) = SortedY(3)

\* The scalars t for which edge - from can be add * t.
StepCandidates(edge, from, add) ==
    {RZero}
    \cup {RDiv(RSub(edge.coord[k], from.coord[k]), add.coord[k]) :
            k \in {j \in 1..2 : add.coord[j] # RZero}}
    \cup (IF add.data # RZero
          THEN {RDiv(RSub(edge.data, from.data), add.data)} ELSE {})

\* edge was restarted at `from` with the increment add: it lies on the first
\* step from `from`.
Restarted(edge, from, add) ==
    \E t \in StepCandidates(edge, from, add) :
        /\ RLe(RZero, t) /\ RLe(t, FromInt(1))
        /\ edge = AddScaled(from, add, t)

DistanceToMid(g, edge) == RAbs(RSub(edge.coord[1], g.sv[2].coord[1]))

\* C19: the hand-off replaces exactly one edge, the one whose current x is
\* closer to mid.x, the right edge on equal distances: it is restarted at mid
\* with the increment from mid towards bottom; the value and the increment
\* of the other edge are unchanged.
C19_HandOffReplacesOneEdge ==
    \A i \in 1..Len(ops) :
        (ops[i].name = "draw_triangle" /\ ops[i].edges.sv # <<>>) =>
            LET g == ops[i].edges
                new_add == calc_vertex_output_data(g.sv[2], g.sv[3])
            IN  IF RLt(DistanceToMid(g, g.before.left),
                       DistanceToMid(g, g.before.right))
                THEN /\ g.after.left_add = new_add
                     /\ Restarted(g.after.left, g.sv[2], new_add)
                     /\ g.after.right = g.before.right
                     /\ g.after.right_add = g.setup.right_add
                ELSE /\ g.after.right_add = new_add
                     /\ Restarted(g.after.right, g.sv[2], new_add)
                     /\ g.after.left = g.before.left
                     /\ g.after.left_add = g.setup.left_add

\* A draw_triangle whose first loop ran and whose hand-off found the right
\* edge strictly closer to mid and replaced it, changing its value and its
\* increment, while the left edge had a non-zero increment.
C19_Witness ==
    /\ Len(ops) >= 1
    /\ LastOp.name = "draw_triangle"
    /\ LastOp.edges.sv # <<>>
    /\ Len(calls) >= 2
    /\ RLt(DistanceToMid(LastOp.edges, LastOp.edges.before.right),
           DistanceToMid(LastOp.edges, LastOp.edges.before.left))
    /\ LastOp.edges.after.right # LastOp.edges.before.right
    /\ LastOp.edges.after.right_add # LastOp.edges.setup.right_add
    /\ LastOp.edges.after.left_add.coord[1] # RZero

Max(a, b) == IF a >= b THEN a ELSE b
Min(a, b) == IF a <= b THEN a ELSE b

\* The x of the sampling anchor of column c: the pixel centre.
AnchorX(c) == Rat(2 * c + 1, 2)

\* C20: a rasterline returned by clamped_rasterline has
\* start_col = max(0, column_for(start_x)),
\* end_col = min(width, column_for(end_x)),
\* step = (end_payload - start_payload) / (end_x - start_x) and
\* start_data = start_payload + step * (anchor_x(start_col) - start_x),
\* whether or not the start was clamped to column 0.
C20_ClampedRasterlineValues ==
    (ProbeName = "clamped_rasterline" /\ ProbeResult[1]) =>
        LET start_x == ProbeArg(2)
            end_x == ProbeArg(3)
            start_payload == ProbeArg(4)
            end_payload == ProbeArg(5)
            l == ProbeResult[2]
            step == RDiv(RSub(end_payload, start_payload), RSub(end_x, start_x))
        IN  /\ l.y = ProbeArg(1)
            /\ l.start_x = Max(0, column_for(start_x))
            /\ l.end_x = Min(image_buffer_.x, column_for(end_x))
            /\ l.delta_step = step
            /\ l.start_data =
                 RAdd(start_payload,
                      RMul(step, RSub(AnchorX(l.start_x), start_x)))

\* A rasterline with a payload gradient that was clamped at both ends.
C20_Witness ==
    /\ ProbeName = "clamped_rasterline"
    /\ ProbeResult[1]
    /\ column_for(ProbeArg(2)) < 0
    /\ column_for(ProbeArg(3)) > image_buffer_.x
    /\ ProbeArg(4) # ProbeArg(5)
    /\ ProbeResult[2].start_x = 0
    /\ ProbeResult[2].end_x = image_buffer_.x
    /\ ProbeResult[2].start_data # ProbeArg(4)

\* The difference to - from, component by component.
Difference(from, to) ==
    [data |-> RSub(to.data, from.data),
     coord |-> <<RSub(to.coord[1], from.coord[1]),
                 RSub(to.coord[2], from.coord[2])>>]

\* The record r with every component divided by k, k # 0.
Quotient(r, k) ==
    [data |-> RDiv(r.data, k),
     coord |-> <<RDiv(r.coord[1], k), RDiv(r.coord[2], k)>>]

\* C21: calc_vertex_output_data(from, to) returns (to - from) / (to.y -
\* from.y) when to.y # from.y and the difference to - from when to.y =
\* from.y; no component of the result is a quotient by zero.
C21_CalcVertexOutputData ==
    ProbeName = "calc_vertex_output_data" =>
        LET from == ProbeArg(1)
            to == ProbeArg(2)
        IN  /\ to.coord[2] # from.coord[2] =>
                  ProbeResult = Quotient(Difference(from, to),
                                         RSub(to.coord[2], from.coord[2]))
            /\ to.coord[2] = from.coord[2] =>
                  ProbeResult = Difference(from, to)
            /\ ProbeResult.data[2] > 0
            /\ \A k \in 1..2 : ProbeResult.coord[k][2] > 0

\* The increment between two corners on the same y with different x and
\* payload is their difference.
C21_Witness ==
    /\ ProbeName = "calc_vertex_output_data"
    /\ ProbeArg(1).coord[2] = ProbeArg(2).coord[2]
    /\ ProbeArg(1).coord[1] # ProbeArg(2).coord[1]
    /\ ProbeArg(1).data # ProbeArg(2).data
    /\ ProbeResult.coord[1] = RSub(ProbeArg(2).coord[1], ProbeArg(1).coord[1])
    /\ ProbeResult.coord[2] = RZero

\* C22: render_rasterline(line) runs the fragment stage end_col - start_col
\* times, the k-th time (k from 0) with the payload start_data + k *
\* delta_step, stores its output to pixel (row, start_col + k), and stores to
\* no pixel outside the columns [start_col, end_col) of that row.
C22_RenderRasterline ==
    ProbeName = "render_rasterline" =>
        LET line == ProbeArg(1)
            rect_float == ProbeResult[1]
            written == ProbeResult[2]
            width == image_buffer_.x
        IN  /\ Cardinality(written) = line.end_x - line.start_x
            /\ written = {line.y * width + line.start_x + k :
                            k \in 0..(line.end_x - line.start_x - 1)}
            /\ \A k \in 0..(line.end_x - line.start_x - 1) :
                  rect_float[line.y * width + line.start_x + k] =
                      RAdd(line.start_data, RMul(FromInt(k), line.delta_step))
            /\ \A i \in DOMAIN rect_float :
                  i \notin written => rect_float[i] = image_buffer_.rect_float[i]

\* A rasterline of three columns with a payload gradient was rendered on the
\* last row.
C22_Witness ==
    /\ ProbeName = "render_rasterline"
    /\ ProbeArg(1).y = image_buffer_.y - 1
    /\ ProbeArg(1).end_x - ProbeArg(1).start_x = 3
    /\ ProbeArg(1).start_x > 0
    /\ ProbeArg(1).delta_step # RZero
    /\ Cardinality(ProbeResult[2]) = 3

\* The four corners of the buffer rectangle.
BufferCorners ==
    { <<FromInt(x), FromInt(y)>> :
        x \in {0, image_buffer_.x}, y \in {0, image_buffer_.y} }

\* The line through two corners of tri separates tri from the buffer
\* rectangle: the rectangle lies strictly on one side of it and the third
\* corner on the other side or on the line.
SeparatedByEdge(tri) ==
    \E i, j, k \in 1..3 :
        /\ {i, j, k} = {1, 2, 3}
        /\ tri[i].coord # tri[j].coord
        /\ \/ /\ \A c \in BufferCorners :
                    RGt(EdgeFunction(tri[i].coord, tri[j].coord, c), RZero)
              /\ RLe(EdgeFunction(tri[i].coord, tri[j].coord, tri[k].coord),
                     RZero)
           \/ /\ \A c \in BufferCorners :
                    RLt(EdgeFunction(tri[i].coord, tri[j].coord, c), RZero)
              /\ RGe(EdgeFunction(tri[i].coord, tri[j].coord, tri[k].coord),
                     RZero)

\* C23: a triangle that passes the axis-wise rejection test of draw_triangle
\* but lies entirely outside the buffer rectangle causes no pixel write:
\* every row it visits is out of range or its span is discarded by
\* clamped_rasterline, so no rasterline of it is appended.
C23_OffscreenDiagonalWritesNothing ==
    ( /\ Len(ops) >= 1
      /\ ops[1].name = "draw_triangle"
      /\ ~OutsideOnOneAxis(ops[1].tri)
      /\ SeparatedByEdge(ops[1].tri) )
    => /\ ops[1].written = {}
       /\ \A i \in 1..Len(calls) : ~calls[i].ret.has_value
       /\ appended = 0
       /\ stats.discarded_triangles = 0
       /\ stats.rasterlines = stats.discarded_rasterlines

\* C24: a newly constructed rasterizer has no pending rasterlines: a flush()
\* or a destructor that runs before any draw_triangle finds the buffer empty,
\* renders nothing, writes no pixel and leaves the flush counter at 0.
C24_NewRasterizerNothingPending ==
    ( /\ Len(ops) = 1
      /\ ops[1].name \in {"flush", "destructor"} )
    => /\ ops[1].pre_size = 0
       /\ render_log = <<>>
       /\ ops[1].written = {}
       /\ stats.flushes = 0

\* C25: memory safety of rendering: after any sequence of draw_triangle and
\* flush calls on a newly constructed rasterizer, every store of
\* render_rasterline goes to a pixel of the buffer: pixel_index is in
\* 0 .. width * height - 1.
C25_WritesInsideBuffer ==
    \A i \in 1..Len(ops) :
        \A pixel_index \in ops[i].written :
            /\ 0 <= pixel_index
            /\ pixel_index < image_buffer_.x * image_buffer_.y

\* The rasterlines of buffer that were appended, in the order of the buffer.
AppendedLines(buffer) == SelectSeq(buffer, LAMBDA l : l.id > 0)

\* rect_float after the flush() of a rasterizer with RasterlinesSize = 1
\* that was constructed over the buffer of R with the element u in its
\* rasterline buffer and was given the draw_triangle calls that appended
\* lines: its buffer never has size 1 again, so the flush renders u and then
\* lines.
ImageOfCapacityOne(R, u, lines) ==
    render_all(R, <<u>> \o lines, 1).rect_float

\* C26: batching is transparent: after a sequence of draw_triangle calls
\* and one flush() the destination buffer holds the same image for every
\* capacity of the rasterline buffer; the image of this rasterizer is the
\* image of a rasterizer of capacity 1 that was given the same calls.
C26_BatchingTransparent ==
    [][ ( /\ Len(ops) >= 1
          /\ \A i \in 1..Len(ops) : ops[i].name = "draw_triangle"
          /\ Len(ops') = Len(ops) + 1
          /\ ops'[Len(ops')].name = "flush" )
        => \A u \in Uninitialized(image_buffer_.x, image_buffer_.y) :
              image_buffer_'.rect_float =
                  ImageOfCapacityOne(Cur, u, AppendedLines(rasterlines_))
      ]_vars

\* C27: the statistics are conserved in every reachable state: rasterlines
\* seen = discarded rasterlines + rasterlines appended to the buffer, clamped
\* rasterlines <= rasterlines seen - discarded rasterlines, discarded
\* triangles <= triangles seen; and every draw_triangle call increases
\* triangles seen by exactly 1, whatever its outcome.
C27_StatisticsConserved ==
    /\ [](/\ stats.rasterlines = stats.discarded_rasterlines + appended
          /\ stats.clamped_rasterlines <=
                stats.rasterlines - stats.discarded_rasterlines
          /\ stats.discarded_triangles <= stats.triangles)
    /\ [][ ( /\ Len(ops') = Len(ops) + 1
             /\ ops'[Len(ops')].name = "draw_triangle" )
           => stats'.triangles = stats.triangles + 1 ]_vars
    /\ [][ ( /\ Len(ops') = Len(ops) + 1
             /\ ops'[Len(ops')].name # "draw_triangle" )
           => stats'.triangles = stats.triangles ]_vars

\* Triangles were drawn of which one was discarded; of the spans seen some
\* were discarded, some appended, one of them without columns, and some
\* clamped.
C27_Witness ==
    /\ stats.triangles >= 3
    /\ stats.discarded_triangles >= 1
    /\ stats.discarded_rasterlines >= 1
    /\ appended >= 2
    /\ stats.clamped_rasterlines >= 1
    /\ stats.clamped_rasterlines < appended
    /\ \E i \in 1..Len(rasterlines_) :
          /\ rasterlines_[i].id > 0
          /\ rasterlines_[i].start_x = rasterlines_[i].end_x

\* The clamped_rasterline calls of the first scanline loop of the
\* draw_triangle with the edges g: the rows before scanline_for(mid.y).
PhaseOneCalls(g) ==
    {i \in 1..Len(calls) : calls[i].y < scanline_for(g.sv[2].coord[2])}

\* The left target of rasterize_triangle: the one of mid and bottom with the
\* smaller x, bottom when they are equal.
LeftTarget(g) ==
    IF RLt(g.sv[2].coord[1], g.sv[3].coord[1]) THEN g.sv[2] ELSE g.sv[3]

\* C28: winding normalisation: after the swap of the increments left_add.x
\* <= right_add.x, and on every row of the first scanline loop (before the
\* hand-off at mid) the start_x passed to clamped_rasterline is <= the
\* end_x, for every triangle and corner order.
C28_WindingNormalised ==
    ( /\ Len(ops) >= 1
      /\ ops[1].name = "draw_triangle"
      /\ ops[1].edges.sv # <<>> )
    => /\ RLe(ops[1].edges.setup.left_add.coord[1],
              ops[1].edges.setup.right_add.coord[1])
       /\ \A i \in PhaseOneCalls(ops[1].edges) :
             RLe(calls[i].start_x, calls[i].end_x)

\* A triangle was drawn whose increments were swapped (the left increment
\* is not the one towards the left target) and whose first loop called
\* clamped_rasterline for two rows with start_x < end_x.
C28_Witness ==
    /\ Len(ops) >= 1
    /\ ops[1].name = "draw_triangle"
    /\ ops[1].edges.sv # <<>>
    /\ ops[1].edges.setup.left_add #
          calc_vertex_output_data(ops[1].edges.sv[1], LeftTarget(ops[1].edges))
    /\ RLt(ops[1].edges.setup.left_add.coord[1],
           ops[1].edges.setup.right_add.coord[1])
    /\ Cardinality(PhaseOneCalls(ops[1].edges)) >= 2
    /\ \A i \in PhaseOneCalls(ops[1].edges) :
          RLt(calls[i].start_x, calls[i].end_x)

\* The sum of device_size over the objects of S.
RECURSIVE DeviceSizeSum(_)
DeviceSizeSum(S) ==
    IF S = {} THEN 0
    ELSE LET o == CHOOSE q \in S : TRUE
         IN  oneapi.mem[o].device_size + DeviceSizeSum(S \ {o})

\* The objects that hold a device allocation.
Allocated == {o \in DOMAIN oneapi.mem : oneapi.mem[o].device_pointer # 0}

\* The step is the public call `method` of the device.
DeviceCall(method) ==
    /\ oneapi'.served = oneapi.served + 1
    /\ oneapi'.request[1] = method

\* The object of the public call that the step is.
Requested == oneapi'.request[2]

\* C29: after any sequence of mem_alloc, mem_copy_to, mem_zero and mem_free
\* stats.mem_used is the sum of device_size over the objects whose
\* device_pointer is not null; mem_free of an allocated object subtracts its
\* device_size and resets device_pointer and device_size to 0; mem_copy_to
\* on global or texture memory frees the old allocation before it makes the
\* new one.
C29_MemUsedIsSumOfDeviceSizes ==
    /\ [](oneapi.mem_used = DeviceSizeSum(Allocated))
    /\ [][ (DeviceCall("mem_free") /\ Requested \in Allocated)
           => /\ oneapi'.mem_used =
                    oneapi.mem_used - oneapi.mem[Requested].device_size
              /\ oneapi'.mem[Requested].device_pointer = 0
              /\ oneapi'.mem[Requested].device_size = 0 ]_vars
    /\ [][ ( /\ DeviceCall("mem_copy_to")
             /\ oneapi.mem[Requested].type \in {"MEM_GLOBAL", "MEM_TEXTURE"}
             /\ Requested \in Allocated )
           => oneapi.mem[Requested].device_pointer \notin
                  (oneapi'.allocations \ {oneapi'.mem[Requested].device_pointer})
         ]_vars

\* The step is a mem_copy_to on global or texture memory, which frees the
\* allocation of the object before generic_alloc runs.
FreesBeforeAlloc ==
    /\ DeviceCall("mem_copy_to")
    /\ oneapi.mem[Requested].type \in {"MEM_GLOBAL", "MEM_TEXTURE"}

\* C30: when the device allocation in generic_alloc returns null the device
\* error is set, device_pointer and device_size of the object and
\* stats.mem_used are as they were before generic_alloc (after the free of
\* the old allocation for global and texture memory), and the call issues no
\* memcpy and no memset to the null device pointer.
C30_AllocationFailure ==
    [][ (oneapi'.served = oneapi.served + 1 /\ oneapi'.alloc_failed)
        => /\ oneapi'.have_error
           /\ oneapi'.mem =
                 IF FreesBeforeAlloc
                 THEN [oneapi.mem EXCEPT ![Requested].device_pointer = 0,
                                         ![Requested].device_size = 0]
                 ELSE oneapi.mem
           /\ oneapi'.mem_used =
                 IF FreesBeforeAlloc
                 THEN oneapi.mem_used - oneapi.mem[Requested].device_size
                 ELSE oneapi.mem_used
           /\ \A i \in 1..Len(oneapi'.issued) : oneapi'.issued[i][2] # 0
      ]_vars

====
